---- MODULE Spec2Model ----
(***************************************************************************)
(* Model of the behave step implementations of insights-behavioral-spec:   *)
(*   features/steps/cleaner_main.py                 (cleaner steps/checks) *)
(*   features/steps/ccx_data_engineering_service.py (service launch step)  *)
(*                                                                         *)
(* Text is a sequence of tokens.  A token stands for an atomic chunk of    *)
(* characters: a whole log message, a cluster name, or one of the          *)
(* separator characters "\n" and ",".  Substring, split and equality are   *)
(* computed on token sequences the way Python computes them on strings.    *)
(***************************************************************************)
EXTENDS Integers, Sequences, FiniteSets, TLC

VARIABLES
    os_environ,   \* os.environ of the harness process: a function key -> value
    files,        \* the filesystem: [path -> <<>> (no file) or <<text>>]
    fileWriter,   \* history: [path -> scenario whose process last wrote it, 0 = none]
    proc,         \* [scenario -> sequence of the processes its steps launched]
    context,      \* [scenario -> behave context: output, returncode, cleanups]
    frame,        \* [scenario -> locals of the step that is suspended, if any]
    pc,           \* [scenario -> "ready" | "wait" | "sleep" | "done"]
    failed,       \* [scenario -> a step of the scenario has failed]
    result,       \* [scenario -> outcome of the last step that finished]
    readFrom      \* history: [scenario -> writer of the artifact its last check read]

vars == <<os_environ, files, fileWriter, proc, context, frame, pc, failed, result, readFrom>>

----------------------------------------------------------------------------
(* Bounds *)

MaxLaunches == 2      \* launching steps per scenario
MaxExitCode == 2       \* exit codes 0..MaxExitCode
MaxRows == 2           \* rows of the service step's environment table
MaxLen == 4            \* tokens of an enumerated artifact
MaxPerLine == 2        \* messages a generated output packs into one line

\* two scenarios run at once: the claims about interference are pairwise
Scenarios == {1, 2}
ExitCodes == 0..MaxExitCode

----------------------------------------------------------------------------
(* Python string and list operations on token sequences *)

NL == "\n"
COMMA == ","

RECURSIVE AllSeqs(_, _)
AllSeqs(S, n) ==
    IF n = 0 THEN {<<>>}
    ELSE LET shorter == AllSeqs(S, n - 1)
         IN  shorter \cup {Append(q, x) : q \in {r \in shorter : Len(r) = n - 1}, x \in S}

\* `needle in haystack` for two str values
IsSubstring(needle, haystack) ==
    \E i \in 0..(Len(haystack) - Len(needle)) :
        SubSeq(haystack, i + 1, i + Len(needle)) = needle

\* `needle in lst` for a list: membership by equality of the elements
ListContains(lst, needle) == \E i \in 1..Len(lst) : lst[i] = needle

\* index of the first occurrence of token c in text, 0 when there is none
RECURSIVE FindFrom(_, _, _)
FindFrom(text, c, i) ==
    IF i > Len(text) THEN 0
    ELSE IF text[i] = c THEN i
    ELSE FindFrom(text, c, i + 1)

\* str.split(sep): the pieces between separators; "" splits into [""]
RECURSIVE Split(_, _)
Split(text, sep) ==
    LET i == FindFrom(text, sep, 1)
    IN  IF i = 0 THEN <<text>>
        ELSE <<SubSeq(text, 1, i - 1)>> \o Split(SubSeq(text, i + 1, Len(text)), sep)

\* iteration over a text file: lines keep their "\n"; an empty file has no lines
RECURSIVE FileLines(_)
FileLines(text) ==
    LET i == FindFrom(text, NL, 1)
    IN  IF text = <<>> THEN <<>>
        ELSE IF i = 0 THEN <<text>>
        ELSE <<SubSeq(text, 1, i)>> \o FileLines(SubSeq(text, i + 1, Len(text)))

RECURSIVE Concat(_)
Concat(lines) ==
    IF lines = <<>> THEN <<>> ELSE Head(lines) \o Concat(Tail(lines))

Reverse(q) == [i \in 1..Len(q) |-> q[Len(q) + 1 - i]]

Range(q) == {q[i] : i \in 1..Len(q)}

----------------------------------------------------------------------------
(* Program constants *)

\* cleaner_main.py:24, the one artifact path every scenario uses
test_output == <<"test">>

\* ccx_data_engineering_service.py:42, the log file of scenario s
LogPath(s) == <<"logs/ccx-upgrades-data-eng/", s, ".log">>

Paths == {test_output} \cup {LogPath(s) : s \in Scenarios}

\* cleaner_main.py:112-118
VacuumMessages ==
    << "DB connection configuration", "driverName", "postgres",
       "Vacuuming started", "Vacuuming finished" >>

\* cleaner_main.py:200-205
ConfigMessages ==
    << "DB connection configuration", "Storage configuration",
       "Logging configuration", "Cleaner configuration" >>

\* cleaner_main.py:210, f'"message":"{expected_message}"'
MessageField(m) == <<"\"message\":\"", m, "\"">>

\* cleaner_main.py:177 and 189: one str each
VersionText == <<"Insights Results Aggregator Cleaner version 1.0">>
AuthorsText == <<"Pavel Tisnovsky, Red Hat Inc.">>

CleanerSteps == {"older_records", "with_flag", "cleanup_cluster", "db_vacuum"}
ServiceStep == "service"

----------------------------------------------------------------------------
(* Processes: subprocess.Popen handles and the cleanup registry *)

\* subprocess.Popen(...): a new running process appended to the scenario's list.
\* environ and rows are history: os.environ and the table when the step began.
Popen(procs, step, env, environ, rows) ==
    Append(procs, [step |-> step, state |-> "running", exitcode |-> <<>>,
                   returncode |-> <<>>, stdout |-> <<>>, wrote |-> FALSE,
                   env |-> env, environ |-> environ, rows |-> rows,
                   signals |-> 0, termCalls |-> 0])

\* Popen.terminate: signals a running process; nothing to do once the
\* process has exited or has been terminated
Terminate(p) ==
    IF p.state = "running"
    THEN [p EXCEPT !.state = "terminated", !.signals = @ + 1, !.termCalls = @ + 1]
    ELSE [p EXCEPT !.termCalls = @ + 1]

\* context.add_cleanup(handle.terminate)
add_cleanup(ctx, h) == [ctx EXCEPT !.cleanups = Append(@, h)]

\* the registry's teardown: every registered action is invoked once
RECURSIVE RunAll(_, _)
RunAll(cleanups, procs) ==
    IF cleanups = <<>> THEN procs
    ELSE RunAll(Tail(cleanups),
                [procs EXCEPT ![Head(cleanups)] = Terminate(procs[Head(cleanups)])])

NoFrame == [step |-> "", out |-> 0, return_code |-> 0]
NoResult ==
    [step |-> "", ok |-> TRUE, msg |-> <<>>, diff |-> {}, table |-> {}, returncode |-> <<>>]
Passed(step) == [NoResult EXCEPT !.step = step]
Failure(step, msg) == [NoResult EXCEPT !.step = step, !.ok = FALSE, !.msg = msg]

\* the runner starts a step only while no earlier step of the scenario failed
CanRunStep(s) == pc[s] = "ready" /\ ~failed[s]

Finish(s, r) ==
    /\ result' = [result EXCEPT ![s] = r]
    /\ failed' = [failed EXCEPT ![s] = ~r.ok]

----------------------------------------------------------------------------
(* Environment of the service process *)

SetItem(env, k, v) == [x \in (DOMAIN env) \cup {k} |-> IF x = k THEN v ELSE env[x]]

\* for row in context.table: env[row["variable"]] = row["value"]
RECURSIVE UpdateEnv(_, _)
UpdateEnv(env, rows) ==
    IF rows = <<>> THEN env
    ELSE UpdateEnv(SetItem(env, Head(rows).variable, Head(rows).value), Tail(rows))

\* a build that takes the first row of a variable instead of the last
BuildEnv_FirstWins(environ, rows) ==
    [environ |-> environ, env |-> UpdateEnv(environ, Reverse(rows))]

\* env = os.environ.copy(), then the loop: os.environ itself is not touched
BuildEnv(environ, rows) ==
    [environ |-> environ, env |-> UpdateEnv(environ, rows)]

----------------------------------------------------------------------------
(* Expectation checks of cleaner_main.py, as functions of what they read *)

\* the search with `expected == line` in place of `expected in line`
RECURSIVE FirstMissing_WholeLine(_, _, _)
FirstMissing_WholeLine(fragments, output, i) ==
    IF i > Len(fragments) THEN 0
    ELSE IF ListContains(output, fragments[i])
         THEN FirstMissing_WholeLine(fragments, output, i + 1)
         ELSE i

\* for expected in fragments: for line in output: if expected in line: break
\* returns the index of the first fragment no line contains, 0 when all are found
RECURSIVE FirstMissing(_, _, _)
FirstMissing(fragments, output, i) ==
    IF i > Len(fragments) THEN 0
    ELSE IF \E n \in 1..Len(output) : IsSubstring(fragments[i], output[n])
         THEN FirstMissing(fragments, output, i + 1)
         ELSE i

db_vacuuming(output) ==
    LET k == FirstMissing([i \in 1..Len(VacuumMessages) |-> <<VacuumMessages[i]>>],
                          output, 1)
    IN  IF k = 0 THEN Passed("check_db_vacuuming")
        ELSE Failure("check_db_vacuuming",
                     <<"Message '", VacuumMessages[k], "' was not printed during vacuuming">>)

cleaner_configuration(output) ==
    LET k == FirstMissing([i \in 1..Len(ConfigMessages) |-> MessageField(ConfigMessages[i])],
                          output, 1)
    IN  IF k = 0 THEN Passed("check_cleaner_configuration")
        ELSE Failure("check_cleaner_configuration",
                     <<"Message '", ConfigMessages[k], "' was not found in configuration">>)

\* the assertion with the needle looked for inside each line
version_from_cleaner_Substring(output) ==
    IF \E n \in 1..Len(output) : IsSubstring(VersionText, output[n])
    THEN Passed("check_version_from_cleaner")
    ELSE Failure("check_version_from_cleaner", <<"Caught output: ">>)

\* assert "..." in context.output, with context.output a list of lines
version_from_cleaner(output) ==
    IF ListContains(output, VersionText) THEN Passed("check_version_from_cleaner")
    ELSE Failure("check_version_from_cleaner", <<"Caught output: ">>)

authors_info_from_cleaner(output) ==
    IF ListContains(output, AuthorsText) THEN Passed("check_authors_info_from_cleaner")
    ELSE Failure("check_authors_info_from_cleaner", <<"Caught output: ">>)

\* the assertion on content.strip()
empty_list_of_records_Stripped(content) ==
    IF \A i \in 1..Len(content) : content[i] = NL
    THEN Passed("check_empty_list_of_records")
    ELSE Failure("check_empty_list_of_records", <<"expecting empty list of clusters">>)

\* content = fin.read(); assert content == ""
empty_list_of_records(content) ==
    IF content = <<>> THEN Passed("check_empty_list_of_records")
    ELSE Failure("check_empty_list_of_records", <<"expecting empty list of clusters">>)

\* for line in fin: found_clusters.add(line.split(",")[0])
found_clusters(content) ==
    LET lines == FileLines(content)
    IN  {Split(lines[i], COMMA)[1] : i \in 1..Len(lines)}

SymmetricDifference(A, B) == (A \ B) \cup (B \ A)

non_empty_list_of_records(content, expected_clusters) ==
    LET found == found_clusters(content)
    IN  IF expected_clusters = found
        THEN [Passed("check_non_empty_list_of_records") EXCEPT !.table = expected_clusters]
        ELSE [Failure("check_non_empty_list_of_records", <<"Difference: ">>)
                 EXCEPT !.table = expected_clusters,
                        !.diff = SymmetricDifference(expected_clusters, found)]

----------------------------------------------------------------------------
(* Initial state: no scenario has run a step yet *)

NoContext == [output |-> <<>>, has_output |-> FALSE, returncode |-> <<>>, cleanups |-> <<>>]

InitWith(environ) ==
    /\ os_environ = environ
    /\ files = [p \in Paths |-> <<>>]
    /\ fileWriter = [p \in Paths |-> 0]
    /\ proc = [s \in Scenarios |-> <<>>]
    /\ context = [s \in Scenarios |-> NoContext]
    /\ frame = [s \in Scenarios |-> NoFrame]
    /\ pc = [s \in Scenarios |-> "ready"]
    /\ failed = [s \in Scenarios |-> FALSE]
    /\ result = [s \in Scenarios |-> NoResult]
    /\ readFrom = [s \in Scenarios |-> 0]

----------------------------------------------------------------------------
(* The launching steps of cleaner_main.py *)

\* Popen, add_cleanup(out.terminate), then process_generated_output blocks
\* in the wait for the process's exit
StartCleaner(s, step, return_code) ==
    /\ CanRunStep(s)
    /\ Len(proc[s]) < MaxLaunches
    /\ proc' = [proc EXCEPT ![s] = Popen(@, step, os_environ, os_environ, <<>>)]
    /\ context' = [context EXCEPT ![s] = add_cleanup(@, Len(proc[s]) + 1)]
    /\ frame' = [frame EXCEPT ![s] =
                    [step |-> step, out |-> Len(proc[s]) + 1, return_code |-> return_code]]
    /\ pc' = [pc EXCEPT ![s] = "wait"]
    /\ UNCHANGED <<os_environ, files, fileWriter, failed, result, readFrom>>

\* the step returning right after the registration, without the wait for exit
run_cleaner_for_older_records_NoWait(s) ==
    /\ CanRunStep(s)
    /\ Len(proc[s]) < MaxLaunches
    /\ proc' = [proc EXCEPT ![s] = Popen(@, "older_records", os_environ, os_environ, <<>>)]
    /\ context' = [context EXCEPT ![s] = add_cleanup(@, Len(proc[s]) + 1)]
    /\ result' = [result EXCEPT ![s] = Passed("older_records")]
    /\ UNCHANGED <<os_environ, files, fileWriter, frame, pc, failed, readFrom>>

run_cleaner_for_older_records(s) == StartCleaner(s, "older_records", 0)

\* the step with the registration left out
run_cleaner_with_flag_Unregistered(s) ==
    /\ CanRunStep(s)
    /\ Len(proc[s]) < MaxLaunches
    /\ proc' = [proc EXCEPT ![s] = Popen(@, "with_flag", os_environ, os_environ, <<>>)]
    /\ frame' = [frame EXCEPT ![s] =
                    [step |-> "with_flag", out |-> Len(proc[s]) + 1, return_code |-> 2]]
    /\ pc' = [pc EXCEPT ![s] = "wait"]
    /\ UNCHANGED <<os_environ, files, fileWriter, context, failed, result, readFrom>>

run_cleaner_with_flag(s) == StartCleaner(s, "with_flag", 2)

run_cleaner_to_cleanup_cluster(s) == StartCleaner(s, "cleanup_cluster", 0)

\* the step passing 2 like the flag step does
start_db_vacuum_AcceptsTwo(s) == StartCleaner(s, "db_vacuum", 2)

start_db_vacuum(s) == StartCleaner(s, "db_vacuum", 0)

\* process_generated_output(context, out, return_code), from the point where
\* the process has exited: the exit code is recorded on the handle and gated,
\* then the output is split into lines and stored in the context
process_generated_output(s) ==
    /\ pc[s] = "wait"
    /\ proc[s][frame[s].out].state = "exited"
    /\ LET h == frame[s].out
           p == proc[s][h]
           rc == p.exitcode[1]
           ok == rc = 0 \/ rc = frame[s].return_code
       IN  /\ proc' = [proc EXCEPT ![s][h].returncode = <<rc>>]
           /\ IF ok
              THEN /\ context' = [context EXCEPT ![s].output = Split(p.stdout, NL),
                                                 ![s].has_output = TRUE,
                                                 ![s].returncode = <<rc>>]
                   /\ Finish(s, [Passed(frame[s].step) EXCEPT !.returncode = <<rc>>])
              ELSE /\ context' = context
                   /\ Finish(s, [Failure(frame[s].step, <<"Return code is ", ToString(rc)>>)
                                    EXCEPT !.returncode = <<rc>>])
    /\ frame' = [frame EXCEPT ![s] = NoFrame]
    /\ pc' = [pc EXCEPT ![s] = "ready"]
    /\ UNCHANGED <<os_environ, files, fileWriter, readFrom>>

----------------------------------------------------------------------------
(* The launching step of ccx_data_engineering_service.py *)

\* environment build, open(log, "w"), Popen, then time.sleep(2) suspends
start_ccx_upgrades_data_eng(s, rows) ==
    /\ CanRunStep(s)
    /\ Len(proc[s]) < MaxLaunches
    /\ LET built == BuildEnv(os_environ, rows)
       IN  /\ os_environ' = built.environ
           /\ proc' = [proc EXCEPT ![s] = Popen(@, ServiceStep, built.env, os_environ, rows)]
    /\ files' = [files EXCEPT ![LogPath(s)] = << <<>> >>]
    /\ frame' = [frame EXCEPT ![s] =
                    [step |-> ServiceStep, out |-> Len(proc[s]) + 1, return_code |-> 0]]
    /\ pc' = [pc EXCEPT ![s] = "sleep"]
    /\ UNCHANGED <<fileWriter, context, failed, result, readFrom>>

\* time.sleep(2) returns; context.add_cleanup(popen.terminate)
start_ccx_upgrades_data_eng_after_sleep(s) ==
    /\ pc[s] = "sleep"
    /\ context' = [context EXCEPT ![s] = add_cleanup(@, frame[s].out)]
    /\ Finish(s, Passed(ServiceStep))
    /\ frame' = [frame EXCEPT ![s] = NoFrame]
    /\ pc' = [pc EXCEPT ![s] = "ready"]
    /\ UNCHANGED <<os_environ, files, fileWriter, proc, readFrom>>

----------------------------------------------------------------------------
(* The checking steps of cleaner_main.py *)

Check(s, r) ==
    /\ CanRunStep(s)
    /\ Finish(s, r)
    /\ UNCHANGED <<os_environ, files, fileWriter, proc, context, frame, pc>>

\* a check of context.output: the attribute exists once a run step has passed
OutputCheck(s, step, r) ==
    /\ Check(s, IF context[s].has_output THEN r ELSE Failure(step, <<"AttributeError">>))
    /\ UNCHANGED readFrom

\* a check of the artifact file: open(test_output, "r") needs the file
ArtifactCheck(s, step, r) ==
    /\ Check(s, IF files[test_output] = <<>> THEN Failure(step, <<"FileNotFoundError">>)
                ELSE r)
    /\ readFrom' = [readFrom EXCEPT ![s] = fileWriter[test_output]]

check_db_vacuuming(s) ==
    OutputCheck(s, "check_db_vacuuming", db_vacuuming(context[s].output))

check_cleaner_configuration(s) ==
    OutputCheck(s, "check_cleaner_configuration", cleaner_configuration(context[s].output))

check_version_from_cleaner(s) ==
    OutputCheck(s, "check_version_from_cleaner", version_from_cleaner(context[s].output))

check_authors_info_from_cleaner(s) ==
    OutputCheck(s, "check_authors_info_from_cleaner",
                authors_info_from_cleaner(context[s].output))

check_empty_list_of_records(s) ==
    ArtifactCheck(s, "check_empty_list_of_records",
                  empty_list_of_records(Head(files[test_output])))

check_non_empty_list_of_records(s, table) ==
    ArtifactCheck(s, "check_non_empty_list_of_records",
                  non_empty_list_of_records(Head(files[test_output]), table))

----------------------------------------------------------------------------
(* The environment: the launched processes and the scenario runner *)

\* the executable cannot be started: Popen raises and the step fails
LaunchError(s) ==
    /\ CanRunStep(s)
    /\ Len(proc[s]) < MaxLaunches
    /\ Finish(s, Failure("launch", <<"FileNotFoundError">>))
    /\ UNCHANGED <<os_environ, files, fileWriter, proc, context, frame, pc, readFrom>>

Running(s, h) == h \in 1..Len(proc[s]) /\ proc[s][h].state = "running"

\* the cleaner started with --output test_output writes its listing
ProcWrite(s, h, text) ==
    /\ Running(s, h)
    /\ proc[s][h].step = "older_records"
    /\ ~proc[s][h].wrote
    /\ files' = [files EXCEPT ![test_output] = <<text>>]
    /\ fileWriter' = [fileWriter EXCEPT ![test_output] = s]
    /\ proc' = [proc EXCEPT ![s][h].wrote = TRUE]
    /\ UNCHANGED <<os_environ, context, frame, pc, failed, result, readFrom>>

\* a running process exits by itself with some exit code and output
ProcExit(s, h, code, out) ==
    /\ Running(s, h)
    /\ proc' = [proc EXCEPT ![s][h].state = "exited",
                            ![s][h].exitcode = <<code>>,
                            ![s][h].stdout = IF proc[s][h].step = ServiceStep
                                             THEN <<>> ELSE out]
    /\ UNCHANGED <<os_environ, files, fileWriter, context, frame, pc, failed, result,
                   readFrom>>

\* the scenario concludes, passed or failed: the registry runs its cleanups
Teardown(s) ==
    /\ pc[s] = "ready"
    /\ proc' = [proc EXCEPT ![s] = RunAll(context[s].cleanups, @)]
    /\ context' = [context EXCEPT ![s].cleanups = <<>>]
    /\ pc' = [pc EXCEPT ![s] = "done"]
    /\ UNCHANGED <<os_environ, files, fileWriter, frame, failed, result, readFrom>>

----------------------------------------------------------------------------
(* Inputs *)

EnvKeys == {"LOG_LEVEL", "CLIENT_ID"}
EnvValues == {"a", "b"}
Environs == UNION {[D -> EnvValues] : D \in SUBSET EnvKeys}
Rows == [variable : EnvKeys, value : EnvValues]
RowLists == AllSeqs(Rows, MaxRows)

DefaultEnviron == [k \in {"LOG_LEVEL"} |-> "a"]
DefaultRows == << [variable |-> "CLIENT_ID", value |-> "b"] >>

ArtifactTokens == {"c1", "c2", "x", COMMA, NL}
ExampleArtifact ==
    << "c1", COMMA, "x", NL, "c1", COMMA, "y", NL, "c2", COMMA, "z", NL >>
BlankLineArtifact == << "c1", COMMA, "x", NL, NL, "c2", COMMA, "z", NL >>
Artifacts == AllSeqs(ArtifactTokens, MaxLen) \cup {ExampleArtifact, BlankLineArtifact}
Tables == SUBSET {<<"c1">>, <<"c2">>}

\* every message a check looks for, once
AllMessages == VacuumMessages \o Tail(ConfigMessages) \o VersionText \o AuthorsText

OutputStyles == {"bare", "text", "json"}

Piece(style, m) ==
    CASE style = "bare" -> <<m>>
      [] style = "text" -> <<"INFO ", m, " ">>
      [] OTHER          -> <<"{\"level\":\"info\",">> \o MessageField(m) \o <<"}">>

RECURSIVE Chunks(_, _)
Chunks(q, k) ==
    IF q = <<>> THEN <<>>
    ELSE IF Len(q) <= k THEN <<q>>
    ELSE <<SubSeq(q, 1, k)>> \o Chunks(SubSeq(q, k + 1, Len(q)), k)

\* the text a process prints when it logs the messages of S, k to a line
Printed(S, style, reversed, k) ==
    LET chosen == SelectSeq(AllMessages, LAMBDA m : m \in S)
        msgs == IF reversed THEN Reverse(chosen) ELSE chosen
        groups == Chunks(msgs, k)
        Line(g) == Concat([i \in 1..Len(g) |-> Piece(style, g[i])]) \o <<NL>>
    IN  Concat([i \in 1..Len(groups) |-> Line(groups[i])])

Stdouts ==
    {Printed(S, style, reversed, k) :
        S \in SUBSET Range(AllMessages), style \in OutputStyles,
        reversed \in BOOLEAN, k \in 1..MaxPerLine}

----------------------------------------------------------------------------
(* Specifications *)

Init == InitWith(DefaultEnviron)

\* Scenario lifecycle: the steps of a scenario in any order, its processes
\* and its teardown
Step(s) ==
    \/ run_cleaner_for_older_records(s)
    \/ run_cleaner_with_flag(s)
    \/ run_cleaner_to_cleanup_cluster(s)
    \/ start_db_vacuum(s)
    \/ start_ccx_upgrades_data_eng(s, DefaultRows)
    \/ start_ccx_upgrades_data_eng_after_sleep(s)
    \/ process_generated_output(s)
    \/ LaunchError(s)
    \/ \E h \in 1..MaxLaunches : ProcWrite(s, h, <<"c1", COMMA, "x", NL>>)
    \/ \E h \in 1..MaxLaunches, code \in ExitCodes : ProcExit(s, h, code, <<>>)
    \/ check_empty_list_of_records(s)
    \/ check_non_empty_list_of_records(s, {<<"c1">>})
    \/ Teardown(s)

Next == Step(1)

Spec == Init /\ [][Next]_vars

\* Scenarios of a parallel runner, interleaved: each lists old records and
\* checks the listing
ParallelStep(s) ==
    \/ run_cleaner_for_older_records(s)
    \/ process_generated_output(s)
    \/ \E h \in 1..MaxLaunches : ProcWrite(s, h, <<"c1", COMMA, "x", NL>>)
    \/ \E h \in 1..MaxLaunches : ProcExit(s, h, 0, <<>>)
    \/ check_empty_list_of_records(s)
    \/ check_non_empty_list_of_records(s, {<<"c1">>})
    \/ Teardown(s)

NextParallel == \E s \in Scenarios : ParallelStep(s)

SpecParallel == Init /\ [][NextParallel]_vars

\* Captured output: one scenario runs a cleaner that prints any of Stdouts,
\* then the checks of context.output
NextOutput ==
    \/ proc[1] = <<>> /\ run_cleaner_with_flag(1)
    \/ proc[1] = <<>> /\ start_db_vacuum(1)
    \/ Running(1, 1) /\ \E out \in Stdouts : ProcExit(1, 1, 0, out)
    \/ process_generated_output(1)
    \/ check_db_vacuuming(1)
    \/ check_cleaner_configuration(1)
    \/ check_version_from_cleaner(1)
    \/ check_authors_info_from_cleaner(1)

SpecOutput == Init /\ [][NextOutput]_vars

\* Artifact: one scenario runs the cleaner that writes any of Artifacts,
\* then the checks of the artifact file
NextArtifact ==
    \/ proc[1] = <<>> /\ run_cleaner_for_older_records(1)
    \/ Running(1, 1) /\ \E text \in Artifacts : ProcWrite(1, 1, text)
    \/ ProcExit(1, 1, 0, <<>>)
    \/ process_generated_output(1)
    \/ check_empty_list_of_records(1)
    \/ \E table \in Tables : check_non_empty_list_of_records(1, table)

SpecArtifact == Init /\ [][NextArtifact]_vars

\* Environment: a scenario whose one launching step is the service step,
\* under any base environment and any table
InitEnv == \E environ \in Environs : InitWith(environ)

NextEnv ==
    \/ proc[1] = <<>> /\ \E rows \in RowLists : start_ccx_upgrades_data_eng(1, rows)
    \/ start_ccx_upgrades_data_eng_after_sleep(1)
    \/ Teardown(1)

SpecEnv == InitEnv /\ [][NextEnv]_vars

----------------------------------------------------------------------------
(* Properties *)

Handles(s) == 1..Len(proc[s])

Entries(s, h) == {i \in 1..Len(context[s].cleanups) : context[s].cleanups[i] = h}

Min(S) == CHOOSE x \in S : \A y \in S : x <= y
Max(S) == CHOOSE x \in S : \A y \in S : x >= y

\* C1: the termination of every process a step launched has been invoked
\* exactly once when its scenario has concluded, whether its steps passed or
\* one failed, and has not been invoked before that.
C1_TerminatedOnceAtTeardown ==
    \A s \in Scenarios : \A h \in Handles(s) :
        proc[s][h].termCalls = IF pc[s] = "done" THEN 1 ELSE 0

\* a scenario concluded after the exit-code check of its second launching
\* step failed, with both processes launched
C1_Witness ==
    /\ pc[1] = "done"
    /\ failed[1]
    /\ result[1].step \in CleanerSteps
    /\ result[1].returncode = <<1>>
    /\ Len(proc[1]) = 2
    /\ proc[1][1].step = ServiceStep

\* C2: from the moment a launch has returned its handle until the scenario
\* concludes, the handle has exactly one cleanup entry in the registry.
C2_ExactlyOneCleanupEntry ==
    \A s \in Scenarios : \A h \in Handles(s) :
        pc[s] # "done" => Cardinality(Entries(s, h)) = 1

ArtifactChecks == {"check_empty_list_of_records", "check_non_empty_list_of_records"}

OwnRunPassed(s) ==
    \E h \in Handles(s) :
        proc[s][h].step = "older_records" /\ proc[s][h].returncode = <<0>>

\* C3: the artifact a scenario's check reads, after the scenario's own cleaner
\* run has passed, was last written by that scenario's own process.
C3_ArtifactReadIsOwn ==
    \A s \in Scenarios :
        (result[s].step \in ArtifactChecks /\ OwnRunPassed(s) /\ readFrom[s] # 0)
            => readFrom[s] = s

\* C4: a launching step that waited for exit passes exactly when the exit
\* code is in its accepted set, {0, 2} for the flag step and {0} for the
\* other three, and its failure names the actual code.
C4_ExitCodeGating ==
    \A s \in Scenarios :
        LET r == result[s]
            accepted == IF r.step = "with_flag" THEN {0, 2} ELSE {0}
        IN  r.returncode # <<>> =>
                /\ r.step \in CleanerSteps
                /\ r.ok <=> r.returncode[1] \in accepted
                /\ failed[s] <=> ~r.ok
                /\ ~r.ok => r.msg = <<"Return code is ", ToString(r.returncode[1])>>

\* exit code 2 was accepted by the flag step and then rejected by the vacuum step
C4_Witness ==
    /\ Len(proc[1]) = 2
    /\ proc[1][1].step = "with_flag" /\ proc[1][1].returncode = <<2>>
    /\ result[1].step = "db_vacuum" /\ result[1].returncode = <<2>>
    /\ ~result[1].ok

Contained(fragment, output) == \E n \in 1..Len(output) : IsSubstring(fragment, output[n])

MissingVacuum(output) ==
    {i \in 1..Len(VacuumMessages) : ~Contained(<<VacuumMessages[i]>>, output)}

MissingConfig(output) ==
    {i \in 1..Len(ConfigMessages) : ~Contained(MessageField(ConfigMessages[i]), output)}

\* C5: check_db_vacuuming and check_cleaner_configuration pass exactly when
\* every required fragment is inside at least one captured line, in whatever
\* order the lines come; a failure names the first required fragment, in the
\* fixed order, that no line contains, and no later one.
C5_AllFragmentsPresent ==
    \A s \in Scenarios :
        LET r == result[s]
            output == context[s].output
        IN  context[s].has_output =>
                /\ r.step = "check_db_vacuuming" =>
                      /\ r.ok <=> MissingVacuum(output) = {}
                      /\ ~r.ok => r.msg = <<"Message '",
                                            VacuumMessages[Min(MissingVacuum(output))],
                                            "' was not printed during vacuuming">>
                /\ r.step = "check_cleaner_configuration" =>
                      /\ r.ok <=> MissingConfig(output) = {}
                      /\ ~r.ok => r.msg = <<"Message '",
                                            ConfigMessages[Min(MissingConfig(output))],
                                            "' was not found in configuration">>

\* the vacuuming check failed on an output that lacks two fragments, the
\* first of them not the first of the list, and named only that one
C5_Witness ==
    /\ context[1].has_output
    /\ result[1].step = "check_db_vacuuming"
    /\ ~result[1].ok
    /\ MissingVacuum(context[1].output) = {3, 5}
    /\ result[1].msg[2] = "postgres"

\* the identifiers of an artifact: of every non-empty line, what precedes its
\* first comma
LineIdentifiers(content) ==
    LET lines == Split(content, NL)
    IN  {Split(lines[i], COMMA)[1] : i \in {n \in 1..Len(lines) : lines[n] # <<>>}}

\* C6: check_non_empty_list_of_records passes exactly when the identifiers of
\* the artifact's non-empty lines, as a set, equal the expected set, and
\* reports the symmetric difference otherwise; blank lines give no identifier.
C6_RecordSetEquals ==
    \A s \in Scenarios :
        LET r == result[s]
            ids == LineIdentifiers(Head(files[test_output]))
        IN  (r.step = "check_non_empty_list_of_records" /\ files[test_output] # <<>>) =>
                /\ r.ok <=> r.table = ids
                /\ ~r.ok => r.diff = SymmetricDifference(r.table, ids)

IsWhitespace(content) == \A i \in 1..Len(content) : content[i] = NL

\* C7 as stated: an artifact that holds nothing or only a trailing newline is
\* accepted by check_empty_list_of_records; one with other content is rejected.
C7_EmptyOrNewlineAccepted ==
    \A s \in Scenarios :
        LET r == result[s]
            content == Head(files[test_output])
        IN  (r.step = "check_empty_list_of_records" /\ files[test_output] # <<>>) =>
                /\ content \in {<<>>, <<NL>>} => r.ok
                /\ ~IsWhitespace(content) => ~r.ok

\* C7 as amended: check_empty_list_of_records accepts the artifact exactly
\* when it holds nothing at all; an artifact of one newline is rejected.
C7_OnlyEmptyAccepted ==
    \A s \in Scenarios :
        LET r == result[s]
            content == Head(files[test_output])
        IN  (r.step = "check_empty_list_of_records" /\ files[test_output] # <<>>) =>
                /\ r.ok <=> Len(content) = 0
                /\ failed[s] <=> Len(content) > 0
                /\ ~r.ok => r.msg = <<"expecting empty list of clusters">>

\* the check rejected an artifact that holds a single newline
C7_Witness ==
    /\ result[1].step = "check_empty_list_of_records"
    /\ files[test_output] = << <<NL>> >>
    /\ ~result[1].ok

\* C8 as stated: check_version_from_cleaner and check_authors_info_from_cleaner
\* pass exactly when some captured line equals the needle or has it inside.
C8_LineEqualsOrContains ==
    \A s \in Scenarios :
        LET r == result[s]
            output == context[s].output
        IN  context[s].has_output =>
                /\ r.step = "check_version_from_cleaner" =>
                      (r.ok <=> Contained(VersionText, output))
                /\ r.step = "check_authors_info_from_cleaner" =>
                      (r.ok <=> Contained(AuthorsText, output))

\* a captured line that has the needle and nothing else
NeedleAlone(needle, output) ==
    \E n \in 1..Len(output) :
        Len(output[n]) = Len(needle) /\ IsSubstring(needle, output[n])

\* C8 as amended: the two checks pass exactly when some captured line is the
\* needle and nothing else; a line that has the needle together with other
\* text does not satisfy them.
C8_WholeLineOnly ==
    \A s \in Scenarios :
        LET r == result[s]
            output == context[s].output
        IN  context[s].has_output =>
                /\ r.step = "check_version_from_cleaner" =>
                      (r.ok <=> NeedleAlone(VersionText, output))
                /\ r.step = "check_authors_info_from_cleaner" =>
                      (r.ok <=> NeedleAlone(AuthorsText, output))

\* the version check failed on an output with a line that has the version
\* text inside
C8_Witness ==
    /\ context[1].has_output
    /\ result[1].step = "check_version_from_cleaner"
    /\ ~result[1].ok
    /\ Contained(VersionText, context[1].output)

Variables(rows) == {rows[i].variable : i \in 1..Len(rows)}

LastValue(rows, k) == rows[Max({i \in 1..Len(rows) : rows[i].variable = k})].value

\* C9: the environment the service step gives its process maps every
\* variable of the table to the value of its last row, every other variable
\* of os.environ to its value there, has no other variable, and os.environ
\* is what it was before the step.
C9_EnvironmentOverlay ==
    \A s \in Scenarios : \A h \in Handles(s) :
        LET p == proc[s][h]
        IN  p.step = ServiceStep =>
                /\ DOMAIN p.env = (DOMAIN p.environ) \cup Variables(p.rows)
                /\ \A k \in Variables(p.rows) : p.env[k] = LastValue(p.rows, k)
                /\ \A k \in (DOMAIN p.environ) \ Variables(p.rows) : p.env[k] = p.environ[k]
                /\ os_environ = p.environ

\* a table that sets a variable of os.environ twice, to two values, and
\* leaves another variable of os.environ alone
C9_Witness ==
    /\ Len(proc[1]) = 1
    /\ proc[1][1].step = ServiceStep
    /\ DOMAIN proc[1][1].environ = EnvKeys
    /\ Len(proc[1][1].rows) = 2
    /\ proc[1][1].rows[1].variable = proc[1][1].rows[2].variable
    /\ proc[1][1].rows[1].value # proc[1][1].rows[2].value
    /\ proc[1][1].environ[proc[1][1].rows[1].variable] = proc[1][1].rows[2].value

SameProcess(p, q) == p.state = q.state /\ p.signals = q.signals /\ p.exitcode = q.exitcode

====
